---- MODULE Spec2Model ----
(***************************************************************************)
(* Model of pydf's LHA reader: the data-path resolver and set locator      *)
(* (pydf/lha/path.py) and the member classifier, block parser, member      *)
(* parser and set assembler (pydf/lha/parse.py).                           *)
(*                                                                         *)
(* Text is modelled as a sequence of one-character strings (a name such as *)
(* "share" that is never split is kept as one unit of a path text).        *)
(* Python's None is the empty tuple None, a present value x is Some(x).    *)
(***************************************************************************)
EXTENDS Integers, Sequences, FiniteSets, TLC

VARIABLES
    \* ---- member classifier (parse.py, member_type) ----
    cpc,          \* "call" before the call, "done" after it
    cid,          \* argument id
    cpdftype,     \* argument pdftype (optional)
    cerrortype,   \* argument errortype (optional)
    cresult,      \* outcome of the call
    \* ---- block parser (parse.py, member_block) ----
    bpc,          \* "call" / "done"
    bcontent,     \* argument content: the block text
    bresult,      \* outcome of the call
    \* ---- set assembler (parse.py, parse) ----
    ppc,          \* "start", "loop", "returned", "raised"
    located,      \* whether path.locate finds the set directory
    info,         \* ErrorType of the set's .info (optional)
    globbed,      \* the files pdfdir.glob(setname_*.dat) yields
    filter,       \* parse's filter, normalised once parse has started
    todo,         \* sorted member paths still to visit
    visited,      \* member paths visited so far, in order
    members,      \* parse's local list members
    unidentified, \* parse's local list unidentified
    heads,        \* the head returned with each element of members
    outcomes,     \* what member() did for each visited path, in order
    raised,       \* the exception that left parse (optional)
    retval,       \* the value parse returned (optional)
    \* ---- data path (path.py, lhapdf_datapath and locate) ----
    dpc,          \* position inside lhapdf_datapath / locate
    environ,      \* os.environ: variable name -> optional text
    sysprefix,    \* sys.prefix
    baseprefix,   \* sys.base_prefix
    home,         \* pathlib.Path.home()
    dirs,         \* the directories that exist
    legacy,       \* the lhapdf package: importable or not, and its paths()
    probe,        \* prefixes still to probe
    paths,        \* the local list paths
    consulted,    \* sources read so far, in order
    dresult,      \* outcome of lhapdf_datapath (optional)
    lresult       \* outcome of locate (optional)

cvars == <<cpc, cid, cpdftype, cerrortype, cresult>>
bvars == <<bpc, bcontent, bresult>>
pvars == <<ppc, located, info, globbed, filter, todo, visited, members,
           unidentified, heads, outcomes, raised, retval>>
dvars == <<dpc, environ, sysprefix, baseprefix, home, dirs, legacy, probe,
           paths, consulted, dresult, lresult>>
vars == <<cvars, bvars, pvars, dvars>>

----------------------------------------------------------------------------
(* Optional values and small helpers                                       *)

None == <<>>
Some(x) == <<x>>
IsNone(o) == o = <<>>
Val(o) == o[1]

Max(a, b) == IF a >= b THEN a ELSE b
Min(a, b) == IF a <= b THEN a ELSE b

RECURSIVE Pow10(_)
Pow10(k) == IF k = 0 THEN 1 ELSE 10 * Pow10(k - 1)

RECURSIVE NumDigits(_)
NumDigits(n) == IF n < 10 THEN 1 ELSE 1 + NumDigits(n \div 10)

\* "0000" in str(n): four consecutive zero digits in the decimal text of n
DecHas0000(n) ==
    \E k \in 0..NumDigits(n) :
        /\ (n \div Pow10(k)) % 10000 = 0
        /\ n \div Pow10(k + 4) > 0

----------------------------------------------------------------------------
(* Characters                                                              *)

LowerLetters == <<"a","b","c","d","e","f","g","h","i","j","k","l","m",
                  "n","o","p","q","r","s","t","u","v","w","x","y","z">>
UpperLetters == <<"A","B","C","D","E","F","G","H","I","J","K","L","M",
                  "N","O","P","Q","R","S","T","U","V","W","X","Y","Z">>
Digits == {"0","1","2","3","4","5","6","7","8","9"}

IndexIn(c, s) == CHOOSE i \in DOMAIN s : s[i] = c
IsUpper(c) == \E i \in DOMAIN UpperLetters : UpperLetters[i] = c
IsLower(c) == \E i \in DOMAIN LowerLetters : LowerLetters[i] = c
LowerChar(c) == IF IsUpper(c) THEN LowerLetters[IndexIn(c, UpperLetters)] ELSE c
UpperChar(c) == IF IsLower(c) THEN UpperLetters[IndexIn(c, LowerLetters)] ELSE c

\* str.lower()
Lower(s) == [i \in DOMAIN s |-> LowerChar(s[i])]

\* every way of writing s with some of its letters in upper case
RECURSIVE CaseVariants(_)
CaseVariants(s) ==
    IF s = <<>> THEN {<<>>}
    ELSE {<<c>> \o v : c \in {s[1], UpperChar(s[1])}, v \in CaseVariants(Tail(s))}

Id0000 == <<"0","0","0","0">>
Id0001 == <<"0","0","0","1">>
Id0002 == <<"0","0","0","2">>
Id0010 == <<"0","0","1","0">>

hessian == <<"h","e","s","s","i","a","n">>
symhessian == <<"s","y","m","h","e","s","s","i","a","n">>
replicas == <<"r","e","p","l","i","c","a","s">>

\* "0000" in s, for a text s
Has0000(s) ==
    \E k \in 1..(Len(s) - 3) : \A d \in 0..3 : s[k + d] = "0"

----------------------------------------------------------------------------
(* Exceptions.  A ValueError carries args[0], a message built from a       *)
(* template and the values formatted into it.                              *)

ValueError(template, strs, nums) ==
    [exc |-> "ValueError", template |-> template, strs |-> strs, nums |-> nums]

\* parse.py line 194-196: marker in verr.args[0]
MarkerIn(marker, err) ==
    CASE err.template = "Member 0000 has to be 'central', found '{}'"
            -> marker = "0000"
      [] err.template = "File '{}' does not match members name convention"
            -> \/ marker = "name convention"
               \/ marker = "0000" /\ \E k \in DOMAIN err.strs : Has0000(err.strs[k])
      [] OTHER
            -> marker = "0000" /\ \E k \in DOMAIN err.nums : DecHas0000(err.nums[k])

----------------------------------------------------------------------------
(* parse.py, member_type                                                   *)

Returned(v) == [exc |-> "", val |-> v]
IsReturned(r) == r.exc = ""

\* member_type comparing the scheme as written
member_type_case_sensitive(id, pdftype, errortype) ==
    IF ~IsNone(pdftype)
    THEN IF id = Id0000 /\ Val(pdftype) # "central"
         THEN ValueError("Member 0000 has to be 'central', found '{}'",
                         <<Val(pdftype)>>, <<>>)
         ELSE Returned(Val(pdftype))
    ELSE IF id = Id0000
    THEN Returned("central")
    ELSE LET et == IF ~IsNone(errortype) THEN Val(errortype) ELSE <<>>
         IN  IF et \in {hessian, symhessian} THEN Returned("error")
             ELSE IF et = replicas THEN Returned("replica")
             ELSE Returned("member")

member_type(id, pdftype, errortype) ==
    IF ~IsNone(pdftype)
    THEN IF id = Id0000 /\ Val(pdftype) # "central"
         THEN ValueError("Member 0000 has to be 'central', found '{}'",
                         <<Val(pdftype)>>, <<>>)
         ELSE Returned(Val(pdftype))
    ELSE IF id = Id0000
    THEN Returned("central")
    ELSE LET et == IF ~IsNone(errortype) THEN Lower(Val(errortype)) ELSE <<>>
         IN  IF et \in {hessian, symhessian} THEN Returned("error")
             ELSE IF et = replicas THEN Returned("replica")
             ELSE Returned("member")

----------------------------------------------------------------------------
(* parse.py, member_block.  A block text is its lines, each line the       *)
(* numbers written on it; the first three lines are the x-grid, the        *)
(* Q2-grid and the flavor ids, the rest is the value text.  NaN stands for *)
(* the floating-point not-a-number pandas fills a missing field with;      *)
(* every number written in a file is positive.                             *)

NaN == 0 - 1

\* pandas.read_csv(fltext + "\n" + valtext, delim_whitespace=True).values:
\* fltext is the header line.  The C tokenizer pads each short line to the
\* expected width and refuses a line wider than it (ParserError, a
\* ValueError); the expected width is that of the header for the first data
\* line and of the previous line afterwards.  Columns in excess of the
\* header names become the index and are not part of .values.
ExpectedFields(fltext, vallines) == Max(Len(fltext), Len(vallines[1]))

BadLines(fltext, vallines) ==
    {r \in DOMAIN vallines : Len(vallines[r]) > ExpectedFields(fltext, vallines)}

PaddedField(line, c) == IF c <= Len(line) THEN line[c] ELSE NaN

read_csv_values(fltext, vallines) ==
    LET W == ExpectedFields(fltext, vallines)
        lead == W - Len(fltext)
    IN  [r \in DOMAIN vallines |->
            [c \in DOMAIN fltext |-> PaddedField(vallines[r], lead + c)]]

\* the same array read in Fortran order (x fastest)
reshape_fortran(table, nx, nq, nf) ==
    [i \in 1..nx |-> [j \in 1..nq |-> [k \in 1..nf |->
        LET p == (i - 1) + nx * ((j - 1) + nq * (k - 1))
        IN  table[(p \div nf) + 1][(p % nf) + 1]]]]

\* numpy reshape(nx, nq, nf) of an (m, nf) array, C order
reshape(table, nx, nq, nf) ==
    [i \in 1..nx |-> [j \in 1..nq |-> [k \in 1..nf |->
        table[(i - 1) * nq + j][k]]]]

member_block(content) ==
    IF Len(content) < 4
    THEN ValueError("not enough values to unpack (expected 4, got {})",
                    <<>>, <<Len(content)>>)
    ELSE LET xgrid == content[1]
             qgrid == content[2]
             flavors == content[3]
             vallines == SubSeq(content, 4, Len(content))
             bad == BadLines(flavors, vallines)
             size == Len(vallines) * Len(flavors)
         IN  IF bad # {}
             THEN LET r == CHOOSE r \in bad : \A q \in bad : r <= q
                  IN  ValueError("Error tokenizing data. C error: Expected {} fields in line {}, saw {}",
                                 <<>>,
                                 <<ExpectedFields(flavors, vallines), r + 1,
                                   Len(vallines[r])>>)
             ELSE IF size # Len(xgrid) * Len(qgrid) * Len(flavors)
             THEN ValueError("cannot reshape array of size {} into shape ({},{},{})",
                             <<>>,
                             <<size, Len(xgrid), Len(qgrid), Len(flavors)>>)
             ELSE Returned([xgrid |-> xgrid, qgrid |-> qgrid, flavors |-> flavors,
                            values |-> reshape(read_csv_values(flavors, vallines),
                                               Len(xgrid), Len(qgrid), Len(flavors))])

----------------------------------------------------------------------------
(* Member files.  A file of the set directory "foo" is named               *)
(* <set>_<suffix>.dat; its text is a YAML header, which may declare        *)
(* PdfType, and the segments that follow each "---".  blocks names the     *)
(* block texts (BlockText) and closed tells whether the text ends by       *)
(* "---", so that the last segment is blank.                               *)

SetName == "foo"

BlockText(key) ==
    CASE key = "grid221"   -> <<(<<2, 1>>), (<<2, 1>>), (<<21>>),
                                (<<1>>), (<<2>>), (<<3>>), (<<4>>)>>
      [] key = "short"     -> <<(<<2, 1>>), (<<2, 1>>), (<<21>>),
                                (<<1>>), (<<2>>), (<<3>>)>>
      [] key = "padded"    -> <<(<<2, 1>>), (<<1>>), (<<21, 1>>),
                                (<<1>>), (<<2>>)>>
      [] key = "long"      -> <<(<<1>>), (<<1>>), (<<21>>)>>
                              \o [r \in 1..10000 |-> <<r>>]
      [] OTHER             -> <<>>

BlockKeys == {"grid221", "short", "padded", "long"}

Ord(c) ==
    CASE c = "." -> 46
      [] c = "0" -> 48 [] c = "1" -> 49 [] c = "2" -> 50 [] c = "3" -> 51
      [] c = "4" -> 52 [] c = "5" -> 53 [] c = "6" -> 54 [] c = "7" -> 55
      [] c = "8" -> 56 [] c = "9" -> 57
      [] c = "a" -> 97 [] c = "d" -> 100 [] c = "t" -> 116 [] c = "x" -> 120

\* s < t for two texts, as Python compares str
RECURSIVE TextLess(_, _)
TextLess(s, t) ==
    IF t = <<>> THEN FALSE
    ELSE IF s = <<>> THEN TRUE
    ELSE IF s[1] # t[1] THEN Ord(s[1]) < Ord(t[1])
    ELSE TextLess(Tail(s), Tail(t))

\* the part of a file name after "<set>_"
NameRest(f) == f.suffix \o <<".", "d", "a", "t">>

PathLess(f, g) == TextLess(NameRest(f), NameRest(g))

\* sorted(paths)
RECURSIVE sorted(_)
sorted(S) ==
    IF S = {} THEN <<>>
    ELSE LET m == CHOOSE f \in S : \A g \in S \ {f} : PathLess(f, g)
         IN  <<m>> \o sorted(S \ {m})

\* re.fullmatch(member_filename(path.parent.name), path.name): the captured
\* id, or None
fullmatch(parent, f) ==
    IF /\ f.set = parent
       /\ Len(f.suffix) = 4
       /\ \A k \in 1..4 : f.suffix[k] \in Digits
    THEN Some(f.suffix)
    ELSE None

----------------------------------------------------------------------------
(* Filters.  A Sequence filter holds ids as text; a range holds integers.  *)

SeqFilter(ids) == [kind |-> "seq", items |-> ids]
RangeFilter(start, stop, step) ==
    [kind |-> "range", start |-> start, stop |-> stop, step |-> step]
SliceFilter(start, stop, step) ==
    [kind |-> "slice", start |-> start, stop |-> stop, step |-> step]

\* matched[1] in filter, matched[1] being a str: an element of a Sequence of
\* str is found by equality; a range holds int only, and no int equals a str
InFilter(id, f) ==
    CASE f.kind = "seq" -> id \in f.items
      [] f.kind = "range" -> FALSE

\* slice.indices(length), for bounds that are None or not negative and a
\* step that is None or positive
slice_indices(sl, length) ==
    LET step == IF IsNone(sl.step) THEN 1 ELSE Val(sl.step)
        start == IF IsNone(sl.start) THEN 0 ELSE Min(Val(sl.start), length)
        stop == IF IsNone(sl.stop) THEN length ELSE Min(Val(sl.stop), length)
    IN  <<start, stop, step>>

----------------------------------------------------------------------------
(* parse.py, member                                                        *)

MemberSkip(id) == [exc |-> "MemberSkip", id |-> id]

\* member_block applied to each block text, computed once
BlockResult == [key \in BlockKeys |-> member_block(BlockText(key))]

\* for block in parts[1:]: member_block(block); the first exception leaves
RECURSIVE parse_blocks(_)
parse_blocks(keys) ==
    IF keys = <<>> THEN Returned(<<>>)
    ELSE LET b == BlockResult[Head(keys)]
         IN  IF ~IsReturned(b) THEN b
             ELSE LET rest == parse_blocks(Tail(keys))
                  IN  IF ~IsReturned(rest) THEN rest
                      ELSE Returned(<<b.val>> \o rest.val)

\* member consulting the filter only after it read and parsed the file
member_reads_first(path, errortype, flt) ==
    LET matched == fullmatch(SetName, path)
    IN  IF IsNone(matched)
        THEN [out |-> ValueError("File '{}' does not match members name convention",
                                 <<NameRest(path)>>, <<>>),
              read |-> FALSE, warned |-> FALSE]
        ELSE LET pdftype == member_type(Val(matched), path.PdfType, errortype)
             IN  IF ~IsReturned(pdftype)
                 THEN [out |-> pdftype, read |-> TRUE, warned |-> FALSE]
                 ELSE LET blocks == parse_blocks(path.blocks)
                      IN  IF ~IsReturned(blocks)
                          THEN [out |-> blocks, read |-> TRUE, warned |-> ~path.closed]
                          ELSE IF ~IsNone(flt) /\ ~InFilter(Val(matched), Val(flt))
                          THEN [out |-> MemberSkip(Val(matched)), read |-> TRUE,
                                warned |-> ~path.closed]
                          ELSE [out |-> Returned([header |-> [id |-> Val(matched),
                                                              PdfType |-> pdftype.val],
                                                  patches |-> <<(<<>>)>>]),
                                read |-> TRUE, warned |-> ~path.closed]

\* the outcome of member(path, errortype, filter) and whether it read the
\* file (path.read_text) and warned
member(path, errortype, flt) ==
    LET matched == fullmatch(SetName, path)
    IN  IF IsNone(matched)
        THEN [out |-> ValueError("File '{}' does not match members name convention",
                                 <<NameRest(path)>>, <<>>),
              read |-> FALSE, warned |-> FALSE]
        ELSE IF ~IsNone(flt) /\ ~InFilter(Val(matched), Val(flt))
        THEN [out |-> MemberSkip(Val(matched)), read |-> FALSE, warned |-> FALSE]
        ELSE LET pdftype == member_type(Val(matched), path.PdfType, errortype)
             IN  IF ~IsReturned(pdftype)
                 THEN [out |-> pdftype, read |-> TRUE, warned |-> FALSE]
                 ELSE LET blocks == parse_blocks(path.blocks)
                      IN  IF ~IsReturned(blocks)
                          THEN [out |-> blocks, read |-> TRUE, warned |-> ~path.closed]
                          ELSE [out |-> Returned([header |-> [id |-> Val(matched),
                                                              PdfType |-> pdftype.val],
                                                  patches |-> <<(<<>>)>>]),
                                read |-> TRUE, warned |-> ~path.closed]

----------------------------------------------------------------------------
(* parse.py, parse                                                         *)

\* the markers without the one of the classifier's message
Markers_name_only == {"name convention"}

Markers == {"0000", "name convention"}

\* line 179: pdfdir = path.locate(setname), and lines 181-185
ParseStart ==
    /\ ppc = "start"
    /\ IF ~located
       THEN /\ ppc' = "raised"
            /\ raised' = Some([exc |-> "FileNotFoundError"])
            /\ UNCHANGED <<filter, todo>>
       ELSE IF ~IsNone(filter) /\ Val(filter).kind = "slice"
       THEN IF IsNone(Val(filter).stop)
            THEN /\ ppc' = "raised"
                 /\ raised' = Some([exc |-> "TypeError"])
                 /\ UNCHANGED <<filter, todo>>
            ELSE LET r == slice_indices(Val(filter), Val(Val(filter).stop))
                 IN  /\ filter' = Some(RangeFilter(r[1], r[2], r[3]))
                     /\ todo' = sorted(globbed)
                     /\ ppc' = "loop"
                     /\ UNCHANGED raised
       ELSE /\ todo' = sorted(globbed)
            /\ ppc' = "loop"
            /\ UNCHANGED <<filter, raised>>
    /\ UNCHANGED <<located, info, globbed, visited, members, unidentified,
                   heads, outcomes, retval>>
    /\ UNCHANGED <<cvars, bvars, dvars>>

\* lines 189-200: one turn of the loop over the sorted member paths
MemberStep ==
    /\ ppc = "loop"
    /\ todo # <<>>
    /\ LET memberpath == Head(todo)
           r == member(memberpath, None, filter)
       IN  /\ todo' = Tail(todo)
           /\ visited' = Append(visited, memberpath)
           /\ outcomes' = Append(outcomes, r)
           /\ IF IsReturned(r.out)
              THEN /\ members' = Append(members, r.out.val.patches)
                   /\ heads' = Append(heads, r.out.val.header)
                   /\ UNCHANGED <<unidentified, ppc, raised>>
              ELSE IF r.out.exc = "ValueError"
              THEN IF ~\E marker \in Markers : MarkerIn(marker, r.out)
                   THEN /\ ppc' = "raised"
                        /\ raised' = Some(r.out)
                        /\ UNCHANGED <<members, heads, unidentified>>
                   ELSE /\ unidentified' = Append(unidentified, <<memberpath, r.out>>)
                        /\ UNCHANGED <<members, heads, ppc, raised>>
              ELSE UNCHANGED <<members, heads, unidentified, ppc, raised>>
    /\ UNCHANGED <<located, info, globbed, filter, retval>>
    /\ UNCHANGED <<cvars, bvars, dvars>>

\* line 202: return ""
ParseReturn ==
    /\ ppc = "loop"
    /\ todo = <<>>
    /\ ppc' = "returned"
    /\ retval' = Some("")
    /\ UNCHANGED <<located, info, globbed, filter, todo, visited, members,
                   unidentified, heads, outcomes, raised>>
    /\ UNCHANGED <<cvars, bvars, dvars>>

----------------------------------------------------------------------------
(* The set directories parse is run on                                     *)

MaxFiles == 2

BadSuffixes == {<<"1">>, <<"0", "0", "0", "x">>}
Bodies == {[blocks |-> <<"grid221">>, closed |-> TRUE],
           [blocks |-> <<"short">>, closed |-> TRUE],
           [blocks |-> <<"long">>, closed |-> TRUE],
           [blocks |-> <<"padded">>, closed |-> FALSE]}
DeclaredTypes == {None, Some("central"), Some("replica")}

File(suffix, pdftype, body) ==
    [set |-> SetName, suffix |-> suffix, PdfType |-> pdftype,
     blocks |-> body.blocks, closed |-> body.closed]

MemberFiles ==
    {File(s, t, b) : s \in {Id0000, Id0001, Id0002}, t \in DeclaredTypes, b \in Bodies}
    \cup {File(s, None, [blocks |-> <<"short">>, closed |-> TRUE]) : s \in BadSuffixes}

\* what glob("foo_*.dat") can yield: files of different names
Directories ==
    UNION {{{s[k] : k \in 1..n} : s \in {t \in [1..n -> MemberFiles] :
                \A a, b \in 1..n : a < b => PathLess(t[a], t[b])}} : n \in 0..MaxFiles}

Filters == {None,
            Some(SeqFilter({Id0001})),
            Some(RangeFilter(0, 2, 1)),
            Some(SliceFilter(None, Some(2), None)),
            Some(SliceFilter(None, None, None))}

Schemes == {None, Some(replicas), Some(hessian)}

PInit ==
    /\ ppc = "start"
    /\ located \in BOOLEAN
    /\ info \in Schemes
    /\ globbed \in Directories
    /\ filter \in Filters
    /\ ~located => globbed = {} /\ filter = None /\ info = None
    /\ todo = <<>>
    /\ visited = <<>>
    /\ members = <<>>
    /\ unidentified = <<>>
    /\ heads = <<>>
    /\ outcomes = <<>>
    /\ raised = None
    /\ retval = None

PIdle ==
    /\ ppc = "idle" /\ located = FALSE /\ info = None /\ globbed = {}
    /\ filter = None /\ todo = <<>> /\ visited = <<>> /\ members = <<>>
    /\ unidentified = <<>> /\ heads = <<>> /\ outcomes = <<>>
    /\ raised = None /\ retval = None

CIdle ==
    /\ cpc = "idle" /\ cid = <<>> /\ cpdftype = None /\ cerrortype = None
    /\ cresult = None

BIdle == bpc = "idle" /\ bcontent = <<>> /\ bresult = None

DIdle ==
    /\ dpc = "idle" /\ environ = <<>> /\ sysprefix = <<>> /\ baseprefix = <<>>
    /\ home = <<>> /\ dirs = {} /\ legacy = <<>> /\ probe = <<>> /\ paths = <<>>
    /\ consulted = <<>> /\ dresult = None /\ lresult = None

Init == PInit /\ CIdle /\ BIdle /\ DIdle

Next == ParseStart \/ MemberStep \/ ParseReturn

Spec == Init /\ [][Next]_vars

----------------------------------------------------------------------------
(* Properties of the set assembler, checked under Spec                     *)

\* the file of the set directory a parsed header came from
FileOf(id) == CHOOSE f \in globbed : f.suffix = id

Types == [j \in DOMAIN heads |-> heads[j].PdfType]

IsGoodName(f) == Len(f.suffix) = 4 /\ \A k \in 1..4 : f.suffix[k] \in Digits

PlainMember(id) ==
    File(id, None, [blocks |-> <<"grid221">>, closed |-> TRUE])

\* C1: parse of a "replicas" set holding foo_0000.dat and foo_0001.dat with
\* no declared type returns a container of 2 members typed
\* <<central, replica>> and nothing excluded; in general every member with
\* no declared type gets the type the classifier derives from the error
\* scheme of the set's .info.
C1_TypedByInfoScheme ==
    ppc = "returned" =>
        /\ \A j \in DOMAIN heads :
              IsNone(FileOf(heads[j].id).PdfType) =>
                  heads[j].PdfType = member_type(heads[j].id, None, info).val
        /\ (/\ info = Some(replicas)
            /\ filter = None
            /\ globbed = {PlainMember(Id0000), PlainMember(Id0001)})
           => /\ Len(members) = 2
              /\ Types = <<"central", "replica">>
              /\ unidentified = <<>>

\* C3: among the parsed members at most one is typed "central", and a
\* member is typed "central" exactly when its id is "0000".
C3_CentralIffId0000 ==
    /\ \A j \in DOMAIN heads : heads[j].PdfType = "central" <=> heads[j].id = Id0000
    /\ Cardinality({j \in DOMAIN heads : heads[j].PdfType = "central"}) <= 1

\* the exception member_block raised for the i-th visited file, if any
BlockFailed(i) ==
    /\ outcomes[i].out.exc = "ValueError"
    /\ outcomes[i].out.template = "cannot reshape array of size {} into shape ({},{},{})"

Excluded == {unidentified[k][1] : k \in DOMAIN unidentified}

\* C4: a member whose block parse fails on a value count that does not fit
\* the grid always aborts parse with that error: the file is never recorded
\* in the excluded list and the loop never goes on to the next member.
C4_MalformedBlockAborts ==
    \A i \in DOMAIN visited :
        BlockFailed(i) =>
            /\ ppc = "raised"
            /\ raised = Some(outcomes[i].out)
            /\ i = Len(visited)
            /\ visited[i] \notin Excluded

\* the file is one whose name is wrong, or member 0000 declaring a type
\* other than central
IsBadFile(f) ==
    \/ ~IsGoodName(f)
    \/ /\ f.suffix = Id0000
       /\ ~IsNone(f.PdfType)
       /\ Val(f.PdfType) # "central"

\* the same, member 0000 being one the filter, if any, does not skip
IsExcludable(f) ==
    \/ ~IsGoodName(f)
    \/ /\ IsBadFile(f)
       /\ IsNone(filter) \/ InFilter(f.suffix, Val(filter))

\* C5 as stated: during set assembly every candidate file whose name does
\* not match <set>_NNNN.dat, or that is member 0000 with a declared type
\* other than central, is recorded as (file, reason) in the excluded list.
C5_AnyBadFileExcluded ==
    \A i \in DOMAIN visited :
        IsBadFile(visited[i]) =>
            \E k \in DOMAIN unidentified : unidentified[k][1] = visited[i]

\* C5 amended: during set assembly a candidate file whose name does not
\* match <set>_NNNN.dat, or that is member 0000 with a declared type other
\* than central and is not skipped by the filter, is recorded as
\* (file, reason) in the excluded list, is not among the members, and does
\* not abort the parse: the loop goes on with the remaining files in sorted
\* order.
C5_BadFileExcluded ==
    ppc \in {"loop", "returned", "raised"} =>
        /\ ppc \in {"loop", "returned"} => visited \o todo = sorted(globbed)
        /\ ppc = "returned" => todo = <<>>
        /\ \A i \in DOMAIN visited :
              IsExcludable(visited[i]) =>
                  /\ \E k \in DOMAIN unidentified :
                        unidentified[k] = <<visited[i], outcomes[i].out>>
                  /\ outcomes[i].out.exc = "ValueError"
                  /\ \A j \in DOMAIN heads : heads[j].id # visited[i].suffix
                  /\ Len(members) = Len(heads)
                  /\ ppc = "raised" => i < Len(visited)

C5_Witness ==
    /\ ppc = "returned"
    /\ Len(visited) = 2
    /\ IsExcludable(visited[1])
    /\ visited[1].suffix = Id0000
    /\ Len(unidentified) = 1
    /\ Len(members) = 1

\* the number an id stands for
IdNumber(id) ==
    LET d(c) == Ord(c) - 48
    IN  1000 * d(id[1]) + 100 * d(id[2]) + 10 * d(id[3]) + d(id[4])

\* the id is not one the filter asks for
NotSelected(id, f) ==
    CASE f.kind = "seq" -> id \notin f.items
      [] f.kind = "range" ->
            ~\E n \in 0..f.stop : /\ f.start + n * f.step < f.stop
                                   /\ f.start + n * f.step = IdNumber(id)

\* C6: with a filter that does not hold the id of a well-named file, member
\* raises MemberSkip before reading the file, so also for a file whose
\* block is corrupt; parse consumes the signal: the file is neither a
\* member nor excluded and the loop goes on.
C6_SkipBeforeRead ==
    ppc \in {"loop", "returned", "raised"} =>
        \A i \in DOMAIN visited :
            (/\ IsGoodName(visited[i])
             /\ ~IsNone(filter)
             /\ NotSelected(visited[i].suffix, Val(filter)))
            => /\ outcomes[i].out = MemberSkip(visited[i].suffix)
               /\ ~outcomes[i].read
               /\ \A j \in DOMAIN heads : heads[j].id # visited[i].suffix
               /\ visited[i] \notin Excluded
               /\ ppc = "raised" => i < Len(visited)

C6_Witness ==
    /\ ppc = "returned"
    /\ filter = Some(SeqFilter({Id0001}))
    /\ Len(visited) = 2
    /\ visited[1].suffix = Id0000
    /\ visited[1].blocks = <<"short">>
    /\ outcomes[1].out = MemberSkip(Id0000)
    /\ visited[2].suffix = Id0001
    /\ Len(members) = 1
    /\ unidentified = <<>>

\* C11: the filter selects by id.  With no filter no well-named file is
\* skipped; with a filter that is a range (given as one, or normalised from
\* a slice) a well-named file is skipped exactly when the number its id
\* stands for is outside the range, so the files in the range reach the
\* parser and, parsed, are members: range(0, 2) on files 0000 and 0001
\* yields both.
C11_FilterSelectsById ==
    /\ \A i \in DOMAIN visited :
          IsGoodName(visited[i]) =>
              LET skipped == outcomes[i].out = MemberSkip(visited[i].suffix)
              IN  /\ IsNone(filter) => ~skipped
                  /\ (~IsNone(filter) /\ Val(filter).kind = "range") =>
                         (skipped <=> NotSelected(visited[i].suffix, Val(filter)))
    /\ (/\ ppc = "returned"
        /\ ~IsNone(filter)
        /\ Val(filter) = RangeFilter(0, 2, 1)
        /\ globbed = {PlainMember(Id0000), PlainMember(Id0001)})
       => /\ Len(members) = 2
          /\ heads[1].id = Id0000
          /\ heads[2].id = Id0001

----------------------------------------------------------------------------
(* The member classifier called on its own                                 *)

ClassifierIds == {Id0000, Id0001, Id0010}
ClassifierTypes == {None, Some("central"), Some("replica"), Some("error"),
                    Some("member"), Some("")}
ClassifierSchemes ==
    {None, Some(<<>>), Some(<<"u","n","k","n","o","w","n">>),
     Some(<<"h","e","s","s","i","a","n","s">>),
     Some(<<"r","e","p","l","i","c","a">>)}
    \cup {Some(v) : v \in CaseVariants(hessian)}
    \cup {Some(v) : v \in CaseVariants(symhessian)}
    \cup {Some(v) : v \in CaseVariants(replicas)}

CInit ==
    /\ cpc = "call"
    /\ cid \in ClassifierIds
    /\ cpdftype \in ClassifierTypes
    /\ cerrortype \in ClassifierSchemes
    /\ cresult = None

CallMemberType ==
    /\ cpc = "call"
    /\ cresult' = Some(member_type(cid, cpdftype, cerrortype))
    /\ cpc' = "done"
    /\ UNCHANGED <<cid, cpdftype, cerrortype>>
    /\ UNCHANGED <<bvars, pvars, dvars>>

InitType == CInit /\ BIdle /\ PIdle /\ DIdle

NextType == CallMemberType

SpecType == InitType /\ [][NextType]_vars

\* s and t are the same text but for the case of their letters
SameButCase(s, t) ==
    /\ Len(s) = Len(t)
    /\ \A k \in DOMAIN s : \/ s[k] = t[k]
                            \/ s[k] = UpperChar(t[k])
                            \/ t[k] = UpperChar(s[k])

SchemeIs(errortype, word) == ~IsNone(errortype) /\ SameButCase(Val(errortype), word)

\* C2: member_type follows the three-tier precedence: a declared type is
\* returned unchanged, except that id "0000" declaring another type than
\* "central" fails; with none declared, id "0000" is "central" whatever
\* the scheme; otherwise the scheme decides, its case ignored: "error" for
\* hessian and symhessian, "replica" for replicas, "member" for any other
\* scheme or none.
C2_ThreeTierPrecedence ==
    cpc = "done" =>
        LET r == Val(cresult)
        IN  IF ~IsNone(cpdftype)
            THEN IF cid = Id0000 /\ Val(cpdftype) # "central"
                 THEN r.exc = "ValueError"
                 ELSE r = Returned(Val(cpdftype))
            ELSE IF cid = Id0000
            THEN r = Returned("central")
            ELSE IF SchemeIs(cerrortype, hessian) \/ SchemeIs(cerrortype, symhessian)
            THEN r = Returned("error")
            ELSE IF SchemeIs(cerrortype, replicas)
            THEN r = Returned("replica")
            ELSE r = Returned("member")

C2_Witness ==
    /\ cpc = "done"
    /\ cid = Id0001
    /\ cpdftype = None
    /\ cerrortype = Some(<<"S","y","m","H","e","s","s","i","a","n">>)
    /\ Val(cresult) = Returned("error")

----------------------------------------------------------------------------
(* The block parser called on its own                                      *)

MaxGrid == 2
MaxFlavors == 2
MaxTokens == 12
MaxWidth == 3

\* a grid line of n numbers, not in increasing order
GridLine(n) == [k \in 1..n |-> 10 * (n + 1 - k)]

\* the numbers 1..total in stream order, the first line holding first of
\* them and every later line width of them (the last one what is left)
RECURSIVE Lines(_, _, _)
Lines(from, total, width) ==
    IF from > total THEN <<>>
    ELSE <<[k \in 1..Min(width, total - from + 1) |-> from + k - 1]>>
         \o Lines(from + width, total, width)

ValueText(total, first, width) ==
    <<[k \in 1..Min(first, total) |-> k]>> \o Lines(first + 1, total, width)

BlockTexts ==
    {<<GridLine(nx), GridLine(nq), GridLine(nf)>> \o ValueText(total, first, width) :
        nx \in 1..MaxGrid, nq \in 1..(MaxGrid + 1), nf \in 1..MaxFlavors,
        total \in 1..MaxTokens, first \in 1..MaxWidth, width \in 1..MaxWidth}
    \cup {<<GridLine(nx), GridLine(nq), GridLine(nf)>> :
        nx \in 1..MaxGrid, nq \in 1..(MaxGrid + 1), nf \in 1..MaxFlavors}

BInit ==
    /\ bpc = "call"
    /\ bcontent \in BlockTexts
    /\ bresult = None

CallMemberBlock ==
    /\ bpc = "call"
    /\ bresult' = Some(member_block(bcontent))
    /\ bpc' = "done"
    /\ UNCHANGED bcontent
    /\ UNCHANGED <<cvars, pvars, dvars>>

InitBlock == BInit /\ CIdle /\ PIdle /\ DIdle

NextBlock == CallMemberBlock

SpecBlock == InitBlock /\ [][NextBlock]_vars

\* the value text of a block text, and its numbers in stream order
ValLines(content) == SubSeq(content, 4, Len(content))

RECURSIVE Stream(_)
Stream(lines) == IF lines = <<>> THEN <<>> ELSE Head(lines) \o Stream(Tail(lines))

HasGridCount(content) ==
    /\ Len(content) >= 4
    /\ Len(Stream(ValLines(content)))
         = Len(content[1]) * Len(content[2]) * Len(content[3])

\* every physical line of the value text holds one value per flavor
OneRowPerLine(content) ==
    \A r \in DOMAIN ValLines(content) : Len(ValLines(content)[r]) = Len(content[3])

IsTensorOfStream(r, content) ==
    LET nx == Len(content[1])
        nq == Len(content[2])
        nf == Len(content[3])
        stream == Stream(ValLines(content))
    IN  /\ IsReturned(r)
        /\ r.val.xgrid = content[1]
        /\ r.val.qgrid = content[2]
        /\ r.val.flavors = content[3]
        /\ DOMAIN r.val.values = 1..nx
        /\ \A i \in 1..nx :
              /\ DOMAIN r.val.values[i] = 1..nq
              /\ \A j \in 1..nq :
                    /\ DOMAIN r.val.values[i][j] = 1..nf
                    /\ \A k \in 1..nf :
                          r.val.values[i][j][k]
                            = stream[((i - 1) * nq + (j - 1)) * nf + k]

----------------------------------------------------------------------------
(* path.py.  A path text is a sequence of units: "/", ":", "." and names.  *)
(* pathlib.Path(text) keeps the root and the components between slashes,   *)
(* dropping the empty ones and the "." ones.                               *)

\* str.split(sep)
RECURSIVE split(_, _)
split(s, sep) ==
    IF \A k \in DOMAIN s : s[k] # sep THEN <<s>>
    ELSE LET k == CHOOSE k \in DOMAIN s :
                      s[k] = sep /\ \A j \in 1..(k - 1) : s[j] # sep
         IN  <<SubSeq(s, 1, k - 1)>> \o split(SubSeq(s, k + 1, Len(s)), sep)

LeadingSlashes(s) ==
    Cardinality({k \in DOMAIN s : \A j \in 1..k : s[j] = "/"})

\* pathlib.Path(text)
Path(text) ==
    [root |-> IF LeadingSlashes(text) = 0 THEN <<>>
              ELSE IF LeadingSlashes(text) = 2 THEN <<"/", "/">>
              ELSE <<"/">>,
     parts |-> SelectSeq(split(text, "/"), LAMBDA c : c # <<>> /\ c # <<".">>)]

\* path / text
Join(p, text) ==
    IF LeadingSlashes(text) > 0 THEN Path(text)
    ELSE [root |-> p.root, parts |-> p.parts \o Path(text).parts]

\* str(path)
RECURSIVE JoinParts(_)
JoinParts(parts) ==
    IF parts = <<>> THEN <<>>
    ELSE IF Len(parts) = 1 THEN parts[1]
    ELSE parts[1] \o <<"/">> \o JoinParts(Tail(parts))

PathText(p) ==
    IF p.root = <<>> /\ p.parts = <<>> THEN <<".">>
    ELSE p.root \o JoinParts(p.parts)

is_dir(p) == p \in dirs

FileNotFoundError(message) == [exc |-> "FileNotFoundError", message |-> message]

\* the entries of a variable that are directories
environ_paths_existing(text) ==
    SelectSeq([k \in DOMAIN split(text, ":") |-> Path(split(text, ":")[k])],
              LAMBDA q : is_dir(q))

\* line 42: [pathlib.Path(path) for path in paths.split(":")]
environ_paths(text) ==
    [k \in DOMAIN split(text, ":") |-> Path(split(text, ":")[k])]

\* lines 38-42: the environment variables, in order; the first one defined
\* is split and returned
LookupEnviron ==
    /\ dpc = "environ"
    /\ IF ~IsNone(environ["LHAPDF_DATA_PATH"])
       THEN /\ dresult' = Some(Returned(environ_paths(Val(environ["LHAPDF_DATA_PATH"]))))
            /\ consulted' = consulted \o <<"LHAPDF_DATA_PATH">>
            /\ dpc' = "resolved"
            /\ UNCHANGED probe
       ELSE IF ~IsNone(environ["LHAPATH"])
       THEN /\ dresult' = Some(Returned(environ_paths(Val(environ["LHAPATH"]))))
            /\ consulted' = consulted \o <<"LHAPDF_DATA_PATH", "LHAPATH">>
            /\ dpc' = "resolved"
            /\ UNCHANGED probe
       ELSE \* lines 45-51: prefix_paths and paths = []
            /\ probe' = <<Some(Path(sysprefix)),
                          IF IsNone(environ["PREFIX"]) THEN None
                          ELSE Some(Path(Val(environ["PREFIX"]))),
                          Some(Join(home, <<".local">>)),
                          Some(Path(baseprefix))>>
            /\ consulted' = consulted \o <<"LHAPDF_DATA_PATH", "LHAPATH">>
            /\ dpc' = "prefixes"
            /\ UNCHANGED dresult
    /\ UNCHANGED <<environ, sysprefix, baseprefix, home, dirs, legacy, paths, lresult>>
    /\ UNCHANGED <<cvars, bvars, pvars>>

\* lines 52-62: one turn of the loop over prefix_paths
ProbePrefix ==
    /\ dpc = "prefixes"
    /\ probe # <<>>
    /\ probe' = Tail(probe)
    /\ IF IsNone(Head(probe))
       THEN UNCHANGED <<paths, consulted>>
       ELSE LET lhapdf_path == Join(Val(Head(probe)), <<"share", "/", "LHAPDF", "/">>)
            IN  /\ consulted' = consulted \o <<"prefix">>
                /\ IF is_dir(lhapdf_path)
                   THEN IF is_dir(Join(lhapdf_path, <<"lhapdf">>))
                        THEN paths' = Append(paths, Join(lhapdf_path, <<"lhapdf">>))
                        ELSE paths' = Append(paths, lhapdf_path)
                   ELSE UNCHANGED paths
    /\ UNCHANGED <<dpc, environ, sysprefix, baseprefix, home, dirs, legacy,
                   dresult, lresult>>
    /\ UNCHANGED <<cvars, bvars, pvars>>

\* lines 64-65: if len(paths) > 0: return paths
ProbeEnd ==
    /\ dpc = "prefixes"
    /\ probe = <<>>
    /\ IF Len(paths) > 0
       THEN dresult' = Some(Returned(paths)) /\ dpc' = "resolved"
       ELSE dpc' = "legacy" /\ UNCHANGED dresult
    /\ UNCHANGED <<environ, sysprefix, baseprefix, home, dirs, legacy, probe,
                   paths, consulted, lresult>>
    /\ UNCHANGED <<cvars, bvars, pvars>>

\* lines 68-73: import lhapdf and return its paths(), or FileNotFoundError
LegacyFallback ==
    /\ dpc = "legacy"
    /\ consulted' = consulted \o <<"lhapdf">>
    /\ IF legacy.importable
       THEN dresult' = Some(Returned([k \in DOMAIN legacy.paths |-> Path(legacy.paths[k])]))
       ELSE dresult' = Some(FileNotFoundError("No data directory for LHAPDF found"))
    /\ dpc' = "resolved"
    /\ UNCHANGED <<environ, sysprefix, baseprefix, home, dirs, legacy, probe,
                   paths, lresult>>
    /\ UNCHANGED <<cvars, bvars, pvars>>

\* locate, lines 95-102, after its call of lhapdf_datapath
RECURSIVE first_existing(_, _)
first_existing(lhapath, setname) ==
    IF lhapath = <<>> THEN FileNotFoundError("No PDF set '{}' available in LHAPDF path.")
    ELSE IF is_dir(Join(Head(lhapath), setname))
    THEN Returned(Join(Head(lhapath), setname))
    ELSE first_existing(Tail(lhapath), setname)

Locate ==
    /\ dpc = "resolved"
    /\ IF IsReturned(Val(dresult))
       THEN lresult' = Some(first_existing(Val(dresult).val, <<SetName>>))
       ELSE lresult' = dresult
    /\ dpc' = "located"
    /\ UNCHANGED <<environ, sysprefix, baseprefix, home, dirs, legacy, probe,
                   paths, consulted, dresult>>
    /\ UNCHANGED <<cvars, bvars, pvars>>

----------------------------------------------------------------------------
(* The environments lhapdf_datapath is run in                              *)

usr == <<"/", "usr">>
venv == <<"/", "venv">>

DataPathTexts ==
    {None,
     Some(<<"/", "a", ":", "/", "b">>),
     Some(<<"/", "b", ":", "/", "a", ":", "/", "b">>),
     Some(<<"/", "a", "/", ":", "b", "/", "/", "c", ":">>),
     Some(<<>>)}
LegacyPathTexts == {None, Some(<<"/", "c">>), Some(<<"/", "b", ":", "/", "a">>)}
PrefixTexts == {None, Some(usr), Some(<<"/", "usr", "/">>)}

\* the directories of an installation under a prefix: none, share/LHAPDF,
\* or share/LHAPDF and share/LHAPDF/lhapdf
Installed(prefix, how) ==
    CASE how = "none" -> {}
      [] how = "plain" -> {Join(prefix, <<"share", "/", "LHAPDF">>)}
      [] how = "nested" -> {Join(prefix, <<"share", "/", "LHAPDF">>),
                            Join(prefix, <<"share", "/", "LHAPDF", "/", "lhapdf">>)}

Hows == {"none", "plain", "nested"}

Roots ==
    {Path(<<"/", "a">>), Path(<<"/", "b">>), Path(<<"/", "c">>),
     Join(Path(usr), <<"share", "/", "LHAPDF">>),
     Join(Path(usr), <<"share", "/", "LHAPDF", "/", "lhapdf">>),
     Join(Path(venv), <<"share", "/", "LHAPDF">>)}

DirSets ==
    {Installed(Path(usr), h1) \cup Installed(Path(venv), h2)
        \cup Installed(Path(<<"/", "home", "/", ".local">>), h3)
        \cup {Join(r, <<SetName>>) : r \in sets} :
        h1 \in Hows, h2 \in Hows, h3 \in Hows,
        sets \in {{}, {Path(<<"/", "b">>)}, Roots}}

DInit ==
    /\ dpc = "environ"
    /\ environ \in [LHAPDF_DATA_PATH : DataPathTexts, LHAPATH : LegacyPathTexts,
                    PREFIX : PrefixTexts]
    /\ sysprefix \in {usr, venv}
    /\ baseprefix = usr
    /\ home = Path(<<"/", "home">>)
    /\ dirs \in DirSets
    /\ legacy \in {[importable |-> FALSE, paths |-> <<>>],
                    [importable |-> TRUE, paths |-> <<>>],
                    [importable |-> TRUE, paths |-> <<(<<"/", "c">>)>>]}
    /\ probe = <<>>
    /\ paths = <<>>
    /\ consulted = <<>>
    /\ dresult = None
    /\ lresult = None

InitPath == DInit /\ CIdle /\ BIdle /\ PIdle

NextPath == LookupEnviron \/ ProbePrefix \/ ProbeEnd \/ LegacyFallback \/ Locate

SpecPath == InitPath /\ [][NextPath]_vars

----------------------------------------------------------------------------
(* Properties of the data path, checked under SpecPath                     *)

Colons(v) == {k \in DOMAIN v : v[k] = ":"}

\* the position of the i-th ":" of v; 0 for i = 0, past the end of v for
\* i beyond the last one
ColonAt(v, i) ==
    IF i = 0 THEN 0
    ELSE IF i > Cardinality(Colons(v)) THEN Len(v) + 1
    ELSE CHOOSE k \in Colons(v) : Cardinality({c \in Colons(v) : c < k}) = i - 1

\* the i-th ":"-separated entry of v
Entry(v, i) == SubSeq(v, ColonAt(v, i - 1) + 1, ColonAt(v, i) - 1)

\* a path text pathlib keeps as it is written
IsPlainText(e) ==
    /\ e # <<>>
    /\ \A k \in DOMAIN e :
          /\ (e[k] = "/" /\ k > 1) => (k < Len(e) /\ e[k + 1] # "/")
          /\ e[k] = "." => ~((k = 1 \/ e[k - 1] = "/") /\ (k = Len(e) \/ e[k + 1] = "/"))

DataPathDefined ==
    ~IsNone(environ["LHAPDF_DATA_PATH"]) \/ ~IsNone(environ["LHAPATH"])

WinningVariable ==
    IF ~IsNone(environ["LHAPDF_DATA_PATH"]) THEN "LHAPDF_DATA_PATH" ELSE "LHAPATH"

\* C8: with a data-path variable defined, lhapdf_datapath returns one path
\* per ":"-separated entry of the variable, in order, each the path the
\* entry denotes (written as the entry is, when pathlib keeps its text),
\* whether or not it exists, and reads no other source; LHAPDF_DATA_PATH
\* wins over LHAPATH.
C8_EnvironVerbatim ==
    (DataPathDefined /\ ~IsNone(dresult)) =>
        LET v == Val(environ[WinningVariable])
            r == Val(dresult)
        IN  /\ IsReturned(r)
            /\ Len(r.val) = Cardinality(Colons(v)) + 1
            /\ \A i \in 1..Len(r.val) :
                  /\ r.val[i] = Path(Entry(v, i))
                  /\ IsPlainText(Entry(v, i)) => PathText(r.val[i]) = Entry(v, i)
            /\ \A k \in DOMAIN consulted :
                  consulted[k] \in {"LHAPDF_DATA_PATH", "LHAPATH"}
            /\ WinningVariable = "LHAPDF_DATA_PATH" => consulted = <<"LHAPDF_DATA_PATH">>
            /\ paths = <<>>

C8_Witness ==
    /\ environ["LHAPDF_DATA_PATH"] = Some(<<"/", "a", ":", "/", "b">>)
    /\ environ["LHAPATH"] = Some(<<"/", "c">>)
    /\ ~is_dir(Path(<<"/", "a">>))
    /\ dresult = Some(Returned(<<Path(<<"/", "a">>), Path(<<"/", "b">>)>>))
    /\ PathText(Val(dresult).val[1]) = <<"/", "a">>

\* the prefixes lhapdf_datapath probes, in probe order
ProbedPrefixes ==
    <<Path(sysprefix)>>
    \o (IF IsNone(environ["PREFIX"]) THEN <<>> ELSE <<Path(Val(environ["PREFIX"]))>>)
    \o <<Join(home, <<".local">>), Path(baseprefix)>>

ShareOf(prefix) == Join(prefix, <<"share", "/", "LHAPDF">>)

HasShare(prefix) == is_dir(ShareOf(prefix))

RootOf(prefix) ==
    IF is_dir(Join(ShareOf(prefix), <<"lhapdf">>))
    THEN Join(ShareOf(prefix), <<"lhapdf">>)
    ELSE ShareOf(prefix)

\* C9: lhapdf_datapath returns a list that is not empty or fails with
\* FileNotFoundError; the lhapdf package is consulted only when no variable
\* is defined and no prefix holds share/LHAPDF; and with nothing defined,
\* nothing installed and no lhapdf package, locate raises FileNotFoundError.
C9_NeverEmpty ==
    /\ ~IsNone(dresult) =>
          IF IsReturned(Val(dresult)) THEN Len(Val(dresult).val) >= 1
          ELSE Val(dresult).exc = "FileNotFoundError"
    /\ (\E k \in DOMAIN consulted : consulted[k] = "lhapdf") =>
          /\ ~DataPathDefined
          /\ \A k \in DOMAIN ProbedPrefixes : ~HasShare(ProbedPrefixes[k])
    /\ (/\ ~IsNone(lresult)
        /\ ~DataPathDefined
        /\ \A k \in DOMAIN ProbedPrefixes : ~HasShare(ProbedPrefixes[k])
        /\ ~legacy.importable)
       => Val(lresult).exc = "FileNotFoundError"

\* C10: with no data-path variable defined, the list the prefix probe
\* returns holds, in probe order, the root of every probed prefix that
\* contains share/LHAPDF (the nested lhapdf directory when it exists), and
\* no directory twice, also when two probed prefixes are the same path.
C10_OrderedDeduplicated ==
    (/\ ~DataPathDefined
     /\ ~IsNone(dresult)
     /\ \A k \in DOMAIN consulted : consulted[k] # "lhapdf")
    => LET list == Val(dresult).val
       IN  /\ IsReturned(Val(dresult))
           /\ \A a, b \in DOMAIN list : a # b => list[a] # list[b]
           /\ {list[a] : a \in DOMAIN list}
                = {RootOf(ProbedPrefixes[k]) :
                     k \in {j \in DOMAIN ProbedPrefixes : HasShare(ProbedPrefixes[j])}}
           /\ \A a, b \in DOMAIN list :
                 a < b => \E k \in DOMAIN ProbedPrefixes :
                            /\ HasShare(ProbedPrefixes[k])
                            /\ RootOf(ProbedPrefixes[k]) = list[a]
                            /\ \A j \in 1..k :
                                  HasShare(ProbedPrefixes[j])
                                    => RootOf(ProbedPrefixes[j]) # list[b]

====
